---- MODULE Spec2Model ----
\* A model of src/src/common/components/PathSelector.tsx: the PathSelector
\* component (remote directory tree browser, lines 1-181) and the background
\* script that follows it in the same file (task coordination loop, lines 183-421).
EXTENDS Integers, Sequences, FiniteSets, TLC

VARIABLES
  directoryTree,          \* this.state.directoryTree
  requestVersionByPath,   \* this.requestVersionByPath (0 where the record has no entry)
  unsubscribeCallback,    \* this.unsubscribeCallback: the client whose listener it removes
  propsClient,            \* this.props.client
  lifecycle,              \* "constructed", "mounted" or "unmounted"
  listeners,              \* per client: listeners this component has registered on it
  inflight,               \* awaited list / list_share calls that have not resolved yet
  lastStep,               \* the operation that ran last, and what it was given
  dispatchedBeforeReload, \* nested requests in flight over a loadTopLevelDirectories call
  storedState,            \* the snapshot the stored-state listener was last called with
  apiSettings,            \* the connection the api client is configured with
  finishedTaskIds,        \* let finishedTaskIds: Set<string> | undefined
  lastNotificationSettings,
  notificationInterval,   \* the timer handle held, and whether its timer still runs
  timers,                 \* per period: the periodic poll timers that are running
  didInitializeSettings,
  showNonErrorNotifications,
  effects,                \* what the listener's last run did to the outside
  notifiedIds,            \* the task ids a completion notification has been sent for
  pendingClears,          \* clearCachedTasks() promises not yet resolved: does a poll follow?
  pollsStarted,           \* the pollTasks(api) calls the last step made
  handlerCalls,           \* message handler calls that have not returned yet
  lastHandlerStep,        \* the message handler step that ran last, and what it returned
  contextClick,           \* the context-menu click of the run, waiting or handled
  dispatches              \* the calls of the last context-menu or add-tasks step

psVars == <<directoryTree, requestVersionByPath, unsubscribeCallback, propsClient,
            lifecycle, listeners, inflight, lastStep, dispatchedBeforeReload>>

bgVars == <<storedState, apiSettings, finishedTaskIds, lastNotificationSettings,
            notificationInterval, timers, didInitializeSettings,
            showNonErrorNotifications, effects, notifiedIds, pendingClears,
            pollsStarted, handlerCalls, lastHandlerStep, contextClick, dispatches>>

vars == <<directoryTree, requestVersionByPath, unsubscribeCallback, propsClient,
          lifecycle, listeners, inflight, lastStep, dispatchedBeforeReload,
          storedState, apiSettings, finishedTaskIds, lastNotificationSettings,
          notificationInterval, timers, didInitializeSettings,
          showNonErrorNotifications, effects, notifiedIds, pendingClears,
          pollsStarted, handlerCalls, lastHandlerStep, contextClick, dispatches>>

-----------------------------------------------------------------------------
\* Bounds

\* The number of remote list requests dispatched over a run.
MaxRequests == 3

\* The cache invalidations that can be in progress at once.
MaxPendingClears == 2

\* The message handler calls that can be in progress at once.
MaxHandlerCalls == 2

\* The longest task list of the snapshots the badge is computed for.
MaxBadgeTasks == 11

\* The longest selection text of a context-menu click.
MaxTextLen == 4

\* The clients the component can be given.
Clients == {"c1", "c2"}

\* The value of an unset unsubscribeCallback.
NoCallback == "undefined"

-----------------------------------------------------------------------------
\* The directory tree

ROOT_PATH == "/"

\* The remote file system the listings are drawn from.
Shares == {"/a", "/b"}

NestedPaths == {"/a", "/b", "/a/x"}

AllPaths == {ROOT_PATH} \cup NestedPaths

NameOf(path) ==
  CASE path = "/" -> "/"
    [] path = "/a" -> "a"
    [] path = "/b" -> "b"
    [] path = "/a/x" -> "x"

\* One entry of a listing: { name, path }.
Entry(path) == [name |-> NameOf(path), path |-> path]

\* The directory listings a successful response for `path` can carry (sort_by: "name").
Listings(path) ==
  CASE path = "/" -> {<<>>, <<Entry("/a")>>, <<Entry("/b")>>, <<Entry("/a"), Entry("/b")>>}
    [] path = "/a" -> {<<>>, <<Entry("/a/x")>>}
    [] OTHER -> {<<>>}

\* SynologyResponse<T> | ConnectionFailure
Responses(path) ==
  {[kind |-> "connectionFailure", files |-> <<>>], [kind |-> "error", files |-> <<>>]}
    \cup {[kind |-> "success", files |-> l] : l \in Listings(path)}

isConnectionFailure(response) == response.kind = "connectionFailure"

errorMessageFromConnectionFailure(response) == "connection-failure-message"

errorMessageFromCode(response) == "error-code-message"

\* The three child states: "unloaded", { failureMessage } and DirectoryTreeFile[].
Unloaded == [kind |-> "unloaded"]

LoadingFailed(message) == [kind |-> "error", failureMessage |-> message]

Loaded(nodes) == [kind |-> "loaded", nodes |-> nodes]

isUnloadedChild(children) == children.kind = "unloaded"

isErrorChild(children) == children.kind = "error"

isLoadedChild(children) == children.kind = "loaded"

MapSeq(s, F(_)) == IF s = <<>> THEN <<>> ELSE [i \in 1..Len(s) |-> F(s[i])]

recursivelyUpdateDirectoryTree_GraftsAtRoot(currentNode, path, newChildren) ==
  [currentNode EXCEPT !.children = newChildren]

RECURSIVE recursivelyUpdateDirectoryTree(_, _, _)
recursivelyUpdateDirectoryTree(currentNode, path, newChildren) ==
  IF currentNode.path = path
    THEN [currentNode EXCEPT !.children = newChildren]
    ELSE IF isLoadedChild(currentNode.children)
      THEN LET Sub(child) == recursivelyUpdateDirectoryTree(child, path, newChildren)
           IN [currentNode EXCEPT !.children = Loaded(MapSeq(currentNode.children.nodes, Sub))]
      ELSE currentNode

\* data.shares.map / data.files.map: every entry becomes a node with unloaded children.
parseChildren(files) ==
  LET Node(f) == [name |-> f.name, path |-> f.path, children |-> Unloaded]
  IN MapSeq(files, Node)

RECURSIVE PathsIn(_)
PathsIn(node) ==
  {node.path} \cup
    (IF isLoadedChild(node.children)
       THEN UNION {PathsIn(node.children.nodes[i]) : i \in 1..Len(node.children.nodes)}
       ELSE {})

-----------------------------------------------------------------------------
\* PathSelector

InitialTree == [name |-> "/", path |-> ROOT_PATH, children |-> Unloaded]

\* What a step writes into lastStep.
NoResponse == [kind |-> "none", files |-> <<>>]

Step(op, path, version, response) ==
  [op |-> op, path |-> path, version |-> version, response |-> response,
   rootBefore |-> directoryTree.children.kind]

\* A subscription state: the listeners registered per client and the stored callback.
Subscription(ls, cb) == [listeners |-> ls, unsubscribeCallback |-> cb]

unsubscribeFromClient_NoCall(sub) ==
  IF sub.unsubscribeCallback # NoCallback
    THEN Subscription(sub.listeners, NoCallback)
    ELSE sub

unsubscribeFromClient(sub) ==
  IF sub.unsubscribeCallback # NoCallback
    THEN Subscription(
           [sub.listeners EXCEPT ![sub.unsubscribeCallback] = @ - 1],
           NoCallback)
    ELSE sub

subscribeToClient(sub, client) ==
  LET released == unsubscribeFromClient(sub)
  IN Subscription([released.listeners EXCEPT ![client] = @ + 1], client)

TotalRequests ==
  requestVersionByPath["/"] + requestVersionByPath["/a"]
    + requestVersionByPath["/b"] + requestVersionByPath["/a/x"]

\* stashedRequestVersion === this.requestVersionByPath[path]
isCurrentRequest_Always(stashedRequestVersion, path) == TRUE

isCurrentRequest_Never(stashedRequestVersion, path) == FALSE

isCurrentRequest(stashedRequestVersion, path) ==
  stashedRequestVersion = requestVersionByPath[path]

updateTreeWithResponse_ErrorAsSuccess(tree, path, response) ==
  IF isConnectionFailure(response)
    THEN recursivelyUpdateDirectoryTree(
           tree, path, LoadingFailed(errorMessageFromConnectionFailure(response)))
    ELSE recursivelyUpdateDirectoryTree(tree, path, Loaded(parseChildren(response.files)))

updateTreeWithResponse(tree, path, response) ==
  IF isConnectionFailure(response)
    THEN recursivelyUpdateDirectoryTree(
           tree, path, LoadingFailed(errorMessageFromConnectionFailure(response)))
    ELSE IF response.kind # "success"
      THEN recursivelyUpdateDirectoryTree(
             tree, path, LoadingFailed(errorMessageFromCode(response)))
      ELSE recursivelyUpdateDirectoryTree(tree, path, Loaded(parseChildren(response.files)))

\* loadTopLevelDirectories up to its await: the reset, the version, the dispatch.
loadTopLevelDirectories_NoReset ==
  /\ TotalRequests < MaxRequests
  /\ directoryTree' = directoryTree
  /\ requestVersionByPath' = [requestVersionByPath EXCEPT ![ROOT_PATH] = @ + 1]
  /\ inflight' = inflight \cup
       {[path |-> ROOT_PATH, version |-> requestVersionByPath[ROOT_PATH] + 1]}
  /\ dispatchedBeforeReload' =
       dispatchedBeforeReload \cup {r \in inflight : r.path # ROOT_PATH}

loadTopLevelDirectories ==
  /\ TotalRequests < MaxRequests
  /\ directoryTree' = recursivelyUpdateDirectoryTree(directoryTree, ROOT_PATH, Unloaded)
  /\ requestVersionByPath' = [requestVersionByPath EXCEPT ![ROOT_PATH] = @ + 1]
  /\ inflight' = inflight \cup
       {[path |-> ROOT_PATH, version |-> requestVersionByPath[ROOT_PATH] + 1]}
  /\ dispatchedBeforeReload' =
       dispatchedBeforeReload \cup {r \in inflight : r.path # ROOT_PATH}

componentDidMount ==
  /\ UNCHANGED bgVars
  /\ lifecycle = "constructed"
  /\ LET sub == subscribeToClient(Subscription(listeners, unsubscribeCallback), propsClient)
     IN /\ listeners' = sub.listeners
        /\ unsubscribeCallback' = sub.unsubscribeCallback
  /\ loadTopLevelDirectories
  /\ lifecycle' = "mounted"
  /\ lastStep' = Step("componentDidMount", ROOT_PATH, requestVersionByPath'[ROOT_PATH], NoResponse)
  /\ UNCHANGED propsClient

componentWillUnmount ==
  /\ UNCHANGED bgVars
  /\ lifecycle = "mounted"
  /\ LET sub == unsubscribeFromClient(Subscription(listeners, unsubscribeCallback))
     IN /\ listeners' = sub.listeners
        /\ unsubscribeCallback' = sub.unsubscribeCallback
  /\ lifecycle' = "unmounted"
  /\ lastStep' = Step("componentWillUnmount", ROOT_PATH, 0, NoResponse)
  /\ UNCHANGED <<directoryTree, requestVersionByPath, propsClient, inflight,
                 dispatchedBeforeReload>>

\* The client the component subscribes to when its client changes: this.props.client.
resubscribedClient(thisPropsClient, nextPropsClient) == thisPropsClient

\* React assigns this.props = nextProps once the method has returned.
componentWillReceiveProps(nextClient) ==
  /\ UNCHANGED bgVars
  /\ lifecycle = "mounted"
  /\ IF propsClient # nextClient
       THEN /\ LET released == unsubscribeFromClient(Subscription(listeners, unsubscribeCallback))
                   sub == subscribeToClient(released, resubscribedClient(propsClient, nextClient))
               IN /\ listeners' = sub.listeners
                  /\ unsubscribeCallback' = sub.unsubscribeCallback
            /\ loadTopLevelDirectories
            /\ lastStep' = Step("componentWillReceiveProps", ROOT_PATH,
                                requestVersionByPath'[ROOT_PATH], NoResponse)
       ELSE /\ UNCHANGED dispatchedBeforeReload
            /\ UNCHANGED <<listeners, unsubscribeCallback, directoryTree,
                           requestVersionByPath, inflight>>
            /\ lastStep' = Step("componentWillReceiveProps", ROOT_PATH, 0, NoResponse)
  /\ propsClient' = nextClient
  /\ UNCHANGED lifecycle

\* `client` notifies its settings-change listeners; the component's listener is
\* loadTopLevelDirectories.
SettingsChange(client) ==
  /\ UNCHANGED bgVars
  /\ listeners[client] > 0
  /\ loadTopLevelDirectories
  /\ lastStep' = Step("settingsChange", ROOT_PATH, requestVersionByPath'[ROOT_PATH], NoResponse)
  /\ UNCHANGED <<unsubscribeCallback, propsClient, lifecycle, listeners>>

\* loadNestedDirectory up to its await; the rows of the mounted component call it.
loadNestedDirectory_NoGuard(path) ==
  /\ UNCHANGED bgVars
  /\ lifecycle = "mounted"
  /\ TotalRequests < MaxRequests
  /\ requestVersionByPath' = [requestVersionByPath EXCEPT ![path] = @ + 1]
  /\ inflight' = inflight \cup {[path |-> path, version |-> requestVersionByPath[path] + 1]}
  /\ lastStep' = Step("loadNestedDirectory", path, requestVersionByPath[path] + 1, NoResponse)
  /\ UNCHANGED <<directoryTree, unsubscribeCallback, propsClient, lifecycle, listeners,
                 dispatchedBeforeReload>>

loadNestedDirectory(path) ==
  /\ UNCHANGED bgVars
  /\ lifecycle = "mounted"
  /\ IF ~isLoadedChild(directoryTree.children)
       THEN /\ lastStep' = Step("loadNestedDirectory", path, 0, NoResponse)
            /\ UNCHANGED <<requestVersionByPath, inflight>>
       ELSE /\ TotalRequests < MaxRequests
            /\ requestVersionByPath' = [requestVersionByPath EXCEPT ![path] = @ + 1]
            /\ inflight' = inflight \cup
                 {[path |-> path, version |-> requestVersionByPath[path] + 1]}
            /\ lastStep' = Step("loadNestedDirectory", path,
                                requestVersionByPath[path] + 1, NoResponse)
  /\ UNCHANGED <<directoryTree, unsubscribeCallback, propsClient, lifecycle, listeners,
                 dispatchedBeforeReload>>

\* The continuation of loadTopLevelDirectories / loadNestedDirectory after its await.
\* The awaited call runs to completion whatever happened to the component since;
\* setState is taken as the assignment the code writes.
ResolveRequest(request, response) ==
  /\ UNCHANGED bgVars
  /\ request \in inflight
  /\ inflight' = inflight \ {request}
  /\ directoryTree' =
       IF isCurrentRequest(request.version, request.path)
         THEN updateTreeWithResponse(directoryTree, request.path, response)
         ELSE directoryTree
  /\ lastStep' = Step("resolve", request.path, request.version, response)
  /\ dispatchedBeforeReload' = dispatchedBeforeReload \ {request}
  /\ UNCHANGED <<requestVersionByPath, unsubscribeCallback, propsClient, lifecycle, listeners>>

PathSelectorInit ==
  /\ directoryTree = InitialTree
  /\ requestVersionByPath = [p \in AllPaths |-> 0]
  /\ unsubscribeCallback = NoCallback
  /\ propsClient = "c1"
  /\ lifecycle = "constructed"
  /\ listeners = [c \in Clients |-> 0]
  /\ inflight = {}
  /\ dispatchedBeforeReload = {}
  /\ lastStep = [op |-> "constructor", path |-> ROOT_PATH, version |-> 0,
                 response |-> NoResponse, rootBefore |-> "unloaded"]

-----------------------------------------------------------------------------
\* Background script: the stored state it is handed

START_TIME == 1

\* tasksLastCompletedFetchTimestamp == null
NullTimestamp == -1

Timestamps == {NullTimestamp, START_TIME, START_TIME + 1}

\* taskFetchFailureReason == null
NoFailure == "null"

FailureReasons == {NoFailure, "missing-config"}

TaskIds == {"A", "B"}

Statuses == {"downloading", "finished", "seeding"}

Task(id, status) == [id |-> id, title |-> id, status |-> status]

\* The tasks with id `id` a list can hold: none, or one in any status.
TasksOf(id) == {<<>>} \cup {<<Task(id, s)>> : s \in Statuses}

\* storedState.tasks: no id twice, in the order the service lists them.
TaskLists == {a \o b : a \in TasksOf("A"), b \in TasksOf("B")}

Connections == {"nas1", "nas2"}

PollingIntervals == {60, 120}

NotificationSettings ==
  [enableCompletionNotifications : BOOLEAN,
   enableFeedbackNotifications : BOOLEAN,
   completionPollingInterval : PollingIntervals]

\* settings.visibleTasks, as the statuses it lets through.
VisibleTasks == {Statuses, {"downloading"}}

BadgeDisplayTypes == {"total", "filtered"}

StoredStates ==
  [connection : Connections,
   notifications : NotificationSettings,
   visibleTasks : VisibleTasks,
   badgeDisplayType : BadgeDisplayTypes,
   tasks : TaskLists,
   tasksLastCompletedFetchTimestamp : Timestamps,
   taskFetchFailureReason : FailureReasons]

\* The snapshots of a run in which the tasks, the fetch outcome and the
\* completion-notification switch change and the other settings stay put.
CompletionSnapshots ==
  [connection : {"nas1"},
   notifications : [enableCompletionNotifications : BOOLEAN,
                    enableFeedbackNotifications : {TRUE},
                    completionPollingInterval : {60}],
   visibleTasks : {Statuses},
   badgeDisplayType : {"total"},
   tasks : TaskLists,
   tasksLastCompletedFetchTimestamp : Timestamps,
   taskFetchFailureReason : FailureReasons]

-----------------------------------------------------------------------------
\* Background script: the stored-state listener

Undefined == [defined |-> FALSE]

Defined(value) == [defined |-> TRUE, value |-> value]

\* api.updateSettings: the client takes the settings and says whether they differ
\* from the ones it has.
didUpdateSettings(current, connection) == current # Defined(connection)

\* What api.updateSettings can answer. The client is constructed with {}; whether
\* it counts the first settings it is given as a change is its own signal.
updateSettingsAnswers(current, connection) ==
  IF current.defined THEN {didUpdateSettings(current, connection)} ELSE BOOLEAN

\* The task poll of the client-reconfiguration branch: started when the cache
\* invalidation has completed, and only past the first configuration.
pollsAfterClearing_Always(didUpdate, didInitialize) == didUpdate

pollsAfterClearing_Never(didUpdate, didInitialize) == FALSE

pollsAfterClearing(didUpdate, didInitialize) == didUpdate /\ didInitialize

\* lodash isEqual(storedState.settings.notifications, lastNotificationSettings)
isEqual(a, b) == a = b

\* clearInterval(notificationInterval): stops the timer the handle names, if it runs.
clearInterval_NoOp(running, handle) == running

clearInterval(running, handle) ==
  IF handle.defined /\ handle.value.running
    THEN [running EXCEPT ![handle.value.period] = @ - 1]
    ELSE running

\* setInterval(callback, period): one more running timer.
setInterval(running, period) ==
  IF period \in DOMAIN running
    THEN [running EXCEPT ![period] = @ + 1]
    ELSE running @@ (period :> 1)

Digit(d) ==
  CASE d = 0 -> "0" [] d = 1 -> "1" [] d = 2 -> "2" [] d = 3 -> "3" [] d = 4 -> "4"
    [] d = 5 -> "5" [] d = 6 -> "6" [] d = 7 -> "7" [] d = 8 -> "8" [] d = 9 -> "9"

\* Number.prototype.toString of a count, as its sequence of decimal digits.
RECURSIVE toString(_)
toString(n) == IF n < 10 THEN <<Digit(n)>> ELSE toString(n \div 10) \o <<Digit(n % 10)>>

filterTasks(tasks, visibleTasks) ==
  LET Visible(t) == t.status \in visibleTasks
  IN SelectSeq(tasks, Visible)

\* badgeDisplayType is "total" or "filtered"; the assertNever branch is not reached.
badgeTaskCount(state) ==
  IF state.badgeDisplayType = "total"
    THEN Len(state.tasks)
    ELSE Len(filterTasks(state.tasks, state.visibleTasks))

\* What the listener hands to setIcon, setBadgeText and setBadgeBackgroundColor.
badge_ZeroShown(state) ==
  IF state.taskFetchFailureReason # NoFailure
    THEN [icon |-> "disabled", text |-> <<>>, color |-> "red"]
    ELSE [icon |-> "normal", text |-> toString(badgeTaskCount(state)), color |-> "green"]

badge(state) ==
  IF state.taskFetchFailureReason # NoFailure
    THEN [icon |-> "disabled", text |-> <<>>, color |-> "red"]
    ELSE [icon |-> "normal",
          text |-> IF badgeTaskCount(state) = 0 THEN <<>> ELSE toString(badgeTaskCount(state)),
          color |-> "green"]

\* The guard of the completion detection.
detectionGuard_IgnoresFailure(state) ==
  /\ state.tasksLastCompletedFetchTimestamp # NullTimestamp
  /\ state.tasksLastCompletedFetchTimestamp > START_TIME

detectionGuard(state) ==
  /\ state.tasksLastCompletedFetchTimestamp # NullTimestamp
  /\ state.tasksLastCompletedFetchTimestamp > START_TIME
  /\ state.taskFetchFailureReason = NoFailure

\* tasks.filter(finished or seeding).map(id)
updatedFinishedTaskIds_FinishedOnly(tasks) ==
  LET Done(t) == t.status = "finished"
      Id(t) == t.id
  IN MapSeq(SelectSeq(tasks, Done), Id)

updatedFinishedTaskIds(tasks) ==
  LET Done(t) == t.status = "finished" \/ t.status = "seeding"
      Id(t) == t.id
  IN MapSeq(SelectSeq(tasks, Done), Id)

Range(s) == {s[i] : i \in 1..Len(s)}

\* The ids notify() is called with, in order.
completionNotifications_NoBaselineTest(baseline, state) ==
  IF state.notifications.enableCompletionNotifications
    THEN LET New(id) == ~(baseline.defined /\ id \in baseline.value)
         IN SelectSeq(updatedFinishedTaskIds(state.tasks), New)
    ELSE <<>>

completionNotifications_NoDiff(baseline, state) ==
  IF baseline.defined /\ state.notifications.enableCompletionNotifications
    THEN updatedFinishedTaskIds(state.tasks)
    ELSE <<>>

completionNotifications(baseline, state) ==
  IF baseline.defined /\ state.notifications.enableCompletionNotifications
    THEN LET New(id) == id \notin baseline.value
         IN SelectSeq(updatedFinishedTaskIds(state.tasks), New)
    ELSE <<>>

\* finishedTaskIds after the listener has run.
nextFinishedTaskIds_OnlyWhenEnabled(baseline, state) ==
  IF detectionGuard(state)
       /\ (state.notifications.enableCompletionNotifications \/ ~baseline.defined)
    THEN Defined(Range(updatedFinishedTaskIds(state.tasks)))
    ELSE baseline

nextFinishedTaskIds(baseline, state) ==
  IF detectionGuard(state)
    THEN Defined(Range(updatedFinishedTaskIds(state.tasks)))
    ELSE baseline

\* One run of the listener, given the snapshot and the answer of api.updateSettings.
storedStateListener(state, didUpdate) ==
  LET changed == ~(lastNotificationSettings.defined
                   /\ isEqual(state.notifications, lastNotificationSettings.value))
      cleared == IF changed THEN clearInterval(timers, notificationInterval) ELSE timers
      starts == changed /\ state.notifications.enableCompletionNotifications
      period == state.notifications.completionPollingInterval * 1000
      notified == IF detectionGuard(state)
                    THEN completionNotifications(finishedTaskIds, state)
                    ELSE <<>>
  IN /\ didUpdate => Len(pendingClears) < MaxPendingClears
     /\ pendingClears' =
          IF didUpdate
            THEN Append(pendingClears, pollsAfterClearing(didUpdate, didInitializeSettings))
            ELSE pendingClears
     /\ pollsStarted' = 0
     /\ UNCHANGED <<handlerCalls, lastHandlerStep, contextClick, dispatches>>
     /\ storedState' = Defined(state)
     /\ apiSettings' = Defined(state.connection)
     /\ didInitializeSettings' = (didInitializeSettings \/ didUpdate)
     /\ lastNotificationSettings' = Defined(state.notifications)
     /\ timers' = IF starts THEN setInterval(cleared, period) ELSE cleared
     /\ notificationInterval' =
          IF starts
            THEN Defined([period |-> period, running |-> TRUE])
            ELSE IF changed /\ notificationInterval.defined
              THEN Defined([notificationInterval.value EXCEPT !.running = FALSE])
              ELSE notificationInterval
     /\ showNonErrorNotifications' = state.notifications.enableFeedbackNotifications
     /\ finishedTaskIds' = nextFinishedTaskIds(finishedTaskIds, state)
     /\ notifiedIds' = notifiedIds \cup Range(notified)
     /\ effects' = [firstSnapshot |-> ~storedState.defined,
                    initializedBefore |-> didInitializeSettings,
                    reportedChange |-> didUpdate,
                    polled |-> pollsAfterClearing(didUpdate, didInitializeSettings),
                    timerCancelled |-> changed,
                    timerStarted |-> starts,
                    badge |-> badge(state),
                    guardPassed |-> detectionGuard(state),
                    baselineBefore |-> finishedTaskIds,
                    notified |-> notified]
     /\ UNCHANGED psVars

\* The listener with the answer the client gives for settings that differ from
\* the ones applied.
onStoredStateChange(state) ==
  storedStateListener(state, didUpdateSettings(apiSettings, state.connection))

\* A clearCachedTasks() promise resolves; its then-callback, when the listener
\* attached one, calls pollTasks(api).
CacheCleared(i) ==
  /\ i \in 1..Len(pendingClears)
  /\ pendingClears' = SubSeq(pendingClears, 1, i - 1)
                        \o SubSeq(pendingClears, i + 1, Len(pendingClears))
  /\ pollsStarted' = IF pendingClears[i] THEN 1 ELSE 0
  /\ UNCHANGED <<handlerCalls, lastHandlerStep, contextClick, dispatches>>
  /\ UNCHANGED <<storedState, apiSettings, finishedTaskIds, lastNotificationSettings,
                 notificationInterval, timers, didInitializeSettings,
                 showNonErrorNotifications, effects, notifiedIds>>
  /\ UNCHANGED psVars

-----------------------------------------------------------------------------
\* Background script: the message handlers

\* The messages whose handler issues one remote command and then polls.
CommandMessages == {"pause-task", "resume-task", "delete-tasks"}

\* What Task.Pause, Task.Resume and Task.Delete can resolve to.
CommandResponses ==
  {[kind |-> "connectionFailure", files |-> <<>>],
   [kind |-> "error", files |-> <<>>],
   [kind |-> "success", files |-> <<>>]}

\* CallbackResponse: "success" | { failMessage }
Success == [kind |-> "success"]

Failure(message) == [kind |-> "fail", failMessage |-> message]

NotReturned == [kind |-> "none"]

callbackResponseFrom_ErrorAsSuccess(response) ==
  IF isConnectionFailure(response)
    THEN Failure(errorMessageFromConnectionFailure(response))
    ELSE Success

callbackResponseFrom(response) ==
  IF isConnectionFailure(response)
    THEN Failure(errorMessageFromConnectionFailure(response))
    ELSE IF response.kind # "success"
      THEN Failure(errorMessageFromCode(response))
      ELSE Success

HandlerStep(op, type, response, returned) ==
  [op |-> op, type |-> type, response |-> response, returned |-> returned]

RemoveAt(s, i) == SubSeq(s, 1, i - 1) \o SubSeq(s, i + 1, Len(s))

listenerVars == <<storedState, apiSettings, finishedTaskIds, lastNotificationSettings,
                  notificationInterval, timers, didInitializeSettings,
                  showNonErrorNotifications, effects, notifiedIds, pendingClears>>

\* A pause-task, resume-task or delete-tasks message arrives: its handler issues
\* the remote command and awaits it.
ReceiveCommandMessage(type) ==
  /\ Len(handlerCalls) < MaxHandlerCalls
  /\ handlerCalls' = Append(handlerCalls, [type |-> type, stage |-> "command"])
  /\ lastHandlerStep' = HandlerStep("received", type, NoResponse, NotReturned)
  /\ pollsStarted' = 0
  /\ UNCHANGED <<contextClick, dispatches>>
  /\ UNCHANGED listenerVars
  /\ UNCHANGED psVars

\* A poll-tasks message arrives: its handler returns pollTasks(api).
ReceivePollMessage ==
  /\ Len(handlerCalls) < MaxHandlerCalls
  /\ handlerCalls' = Append(handlerCalls, [type |-> "poll-tasks", stage |-> "poll"])
  /\ lastHandlerStep' = HandlerStep("received", "poll-tasks", NoResponse, NotReturned)
  /\ pollsStarted' = 1
  /\ UNCHANGED <<contextClick, dispatches>>
  /\ UNCHANGED listenerVars
  /\ UNCHANGED psVars

\* The remote command of call i resolves: the handler maps the response and, on
\* "success", calls pollTasks(api) and awaits it; otherwise it returns.
CommandResolves(i, response) ==
  /\ i \in 1..Len(handlerCalls)
  /\ handlerCalls[i].stage = "command"
  /\ LET mapped == callbackResponseFrom(response)
     IN IF mapped = Success
          THEN /\ handlerCalls' = [handlerCalls EXCEPT ![i].stage = "poll"]
               /\ pollsStarted' = 1
               /\ lastHandlerStep' = HandlerStep("commandResolved", handlerCalls[i].type,
                                                 response, NotReturned)
          ELSE /\ handlerCalls' = RemoveAt(handlerCalls, i)
               /\ pollsStarted' = 0
               /\ lastHandlerStep' = HandlerStep("commandResolved", handlerCalls[i].type,
                                                 response, mapped)
  /\ UNCHANGED <<contextClick, dispatches>>
  /\ UNCHANGED listenerVars
  /\ UNCHANGED psVars

\* The poll awaited by call i completes: a command handler returns its mapped
\* response, which is "success"; the poll-tasks handler's promise settles.
PollCompletes(i) ==
  /\ i \in 1..Len(handlerCalls)
  /\ handlerCalls[i].stage = "poll"
  /\ handlerCalls' = RemoveAt(handlerCalls, i)
  /\ pollsStarted' = 0
  /\ lastHandlerStep' =
       HandlerStep("pollCompleted", handlerCalls[i].type, NoResponse,
                   IF handlerCalls[i].type \in CommandMessages THEN Success ELSE NotReturned)
  /\ UNCHANGED <<contextClick, dispatches>>
  /\ UNCHANGED listenerVars
  /\ UNCHANGED psVars

-----------------------------------------------------------------------------
\* Background script: the context menu

\* The characters of a selection text: a line break, a blank and three letters.
Chars == {"\n", " ", "h", "t", "m"}

Whitespace == {"\n", " "}

\* Strings are sequences of characters; the empty one is falsy, like a missing one.
Texts == UNION {[1..n -> Chars] : n \in 0..MaxTextLen}

\* ALL_DOWNLOADABLE_PROTOCOLS, as two schemes: "ht" and "m".
ALL_DOWNLOADABLE_PROTOCOLS == {<<"h", "t">>, <<"m">>}

startsWith(s, prefix) == Len(s) >= Len(prefix) /\ SubSeq(s, 1, Len(prefix)) = prefix

startsWithAnyProtocol(url, protocols) == \E protocol \in protocols : startsWith(url, protocol)

\* String.prototype.split(separator) with a one-character separator.
RECURSIVE split(_, _)
split(text, separator) ==
  IF \A i \in 1..Len(text) : text[i] # separator
    THEN <<text>>
    ELSE LET first == CHOOSE i \in 1..Len(text) :
                        text[i] = separator /\ \A j \in 1..(i - 1) : text[j] # separator
         IN <<SubSeq(text, 1, first - 1)>> \o split(SubSeq(text, first + 1, Len(text)), separator)

RECURSIVE trimStart(_)
trimStart(s) == IF s # <<>> /\ Head(s) \in Whitespace THEN trimStart(Tail(s)) ELSE s

RECURSIVE trimEnd(_)
trimEnd(s) ==
  IF s # <<>> /\ s[Len(s)] \in Whitespace THEN trimEnd(SubSeq(s, 1, Len(s) - 1)) ELSE s

\* String.prototype.trim
trim_None(s) == s

trim(s) == trimEnd(trimStart(s))

\* selectionText.split("\n").map(trim).filter(startsWithAnyProtocol)
selectedUrls(selectionText) ==
  LET Downloadable(url) == startsWithAnyProtocol(url, ALL_DOWNLOADABLE_PROTOCOLS)
  IN SelectSeq(MapSeq(split(selectionText, "\n"), trim), Downloadable)

\* The OnClickData of a click: a link, a media source and a selection, each
\* possibly missing.
ClickData ==
  [linkUrl : {<<>>, <<"h", "t">>},
   srcUrl : {<<>>, <<"h", "t">>},
   selectionText : Texts]

NoDispatches == [addTasks |-> <<>>, notified |-> <<>>]

\* addDownloadTasksAndPoll(api, showNonErrorNotifications, urls, path)
AddTasks(urls, path) ==
  [addTasks |-> <<[showNonErrorNotifications |-> showNonErrorNotifications,
                   urls |-> urls, path |-> path]>>,
   notified |-> <<>>]

\* notify(Failed_to_add_download, message, "failure")
NotifyFailure(message) == [addTasks |-> <<>>, notified |-> <<message>>]

onclickDispatches(data) ==
  IF data.linkUrl # <<>>
    THEN AddTasks(<<data.linkUrl>>, "undefined")
    ELSE IF data.srcUrl # <<>>
      THEN AddTasks(<<data.srcUrl>>, "undefined")
      ELSE IF data.selectionText # <<>>
        THEN LET urls == selectedUrls(data.selectionText)
             IN IF Len(urls) = 0
                  THEN NotifyFailure("Selected_text_is_not_a_valid_URL")
                  ELSE AddTasks(urls, "undefined")
        ELSE NotifyFailure("URL_is_empty_or_missing")

\* The context-menu entry is clicked.
onclick ==
  /\ contextClick.state = "pending"
  /\ contextClick' = [contextClick EXCEPT !.state = "handled"]
  /\ dispatches' = onclickDispatches(contextClick.data)
  /\ pollsStarted' = 0
  /\ UNCHANGED <<handlerCalls, lastHandlerStep>>
  /\ UNCHANGED listenerVars
  /\ UNCHANGED psVars

\* An add-tasks message arrives: its handler returns addDownloadTasksAndPoll(...).
ReceiveAddTasksMessage(urls, path) ==
  /\ dispatches' = AddTasks(urls, path)
  /\ lastHandlerStep' = HandlerStep("received", "add-tasks", NoResponse, NotReturned)
  /\ pollsStarted' = 0
  /\ UNCHANGED <<handlerCalls, contextClick>>
  /\ UNCHANGED listenerVars
  /\ UNCHANGED psVars

NoEffects ==
  [firstSnapshot |-> FALSE, initializedBefore |-> FALSE, reportedChange |-> FALSE, polled |-> FALSE, timerCancelled |-> FALSE,
   timerStarted |-> FALSE,
   badge |-> [icon |-> "normal", text |-> <<>>, color |-> "green"],
   guardPassed |-> FALSE, baselineBefore |-> Undefined, notified |-> <<>>]

ModuleInit ==
  /\ storedState = Undefined
  /\ apiSettings = Undefined
  /\ finishedTaskIds = Undefined
  /\ lastNotificationSettings = Undefined
  /\ notificationInterval = Undefined
  /\ timers = <<>>
  /\ didInitializeSettings = FALSE
  /\ showNonErrorNotifications = TRUE
  /\ effects = NoEffects
  /\ notifiedIds = {}
  /\ pendingClears = <<>>
  /\ pollsStarted = 0
  /\ handlerCalls = <<>>
  /\ lastHandlerStep = HandlerStep("none", "none", NoResponse, NotReturned)
  /\ dispatches = NoDispatches

\* No context-menu click in the run.
BackgroundInit ==
  /\ ModuleInit
  /\ contextClick = [state |-> "none"]

-----------------------------------------------------------------------------
\* Specifications

Init == PathSelectorInit /\ BackgroundInit

PathSelectorNext ==
  \/ componentDidMount
  \/ componentWillUnmount
  \/ \E nextClient \in Clients : componentWillReceiveProps(nextClient)
  \/ \E client \in Clients : SettingsChange(client)
  \/ \E path \in NestedPaths : loadNestedDirectory(path)
  \/ \E request \in inflight : \E response \in Responses(request.path) :
       ResolveRequest(request, response)

\* The PathSelector component under every interleaving of its callers.
Spec == Init /\ [][PathSelectorNext]_vars

\* Every request the component can dispatch.
AllRequests == [path : AllPaths, version : 1..MaxRequests]

\* The component in a run in which React mounts the constructed component and
\* every dispatched request resolves. The requests of a run are finitely many, so
\* loadTopLevelDirectories is invoked finitely often.
SpecResolving ==
  /\ Init
  /\ [][PathSelectorNext]_vars
  /\ WF_vars(componentDidMount)
  /\ \A request \in AllRequests :
       WF_vars(\E response \in Responses(request.path) : ResolveRequest(request, response))

CompletionNext == \E state \in CompletionSnapshots : onStoredStateChange(state)

\* The stored-state listener under snapshots that change the tasks, the fetch
\* outcome and the completion-notification switch. The one cache invalidation of
\* such a run, the first snapshot's, has no then-callback and is left pending.
SpecCompletion == Init /\ [][CompletionNext]_vars

\* Ids for the tasks of a long list.
BadgeTaskIds == <<"t1", "t2", "t3", "t4", "t5", "t6", "t7", "t8", "t9", "t10", "t11", "t12",
                  "t13", "t14", "t15", "t16">>

\* Task lists of every length up to MaxBadgeTasks: `downloading` tasks that are
\* still downloading come first, finished ones after them.
BadgeTaskLists ==
  {[i \in 1..n |-> Task(BadgeTaskIds[i], IF i <= downloading THEN "downloading" ELSE "finished")] :
     n \in 0..MaxBadgeTasks, downloading \in 0..MaxBadgeTasks}

\* The snapshots of a run in which the tasks, the fetch outcome and the badge
\* settings change; no task fetch of the run has completed after START_TIME.
BadgeSnapshots ==
  [connection : {"nas1"},
   notifications : [enableCompletionNotifications : {FALSE},
                    enableFeedbackNotifications : {TRUE},
                    completionPollingInterval : {60}],
   visibleTasks : VisibleTasks,
   badgeDisplayType : BadgeDisplayTypes,
   tasks : BadgeTaskLists,
   tasksLastCompletedFetchTimestamp : {NullTimestamp},
   taskFetchFailureReason : FailureReasons]

BadgeNext == \E state \in BadgeSnapshots : onStoredStateChange(state)

\* The stored-state listener under snapshots that change what the badge shows.
SpecBadge == Init /\ [][BadgeNext]_vars

\* The snapshots of a run in which the connection and the notification settings
\* change and no task is listed.
SettingsSnapshots ==
  [connection : Connections,
   notifications : NotificationSettings,
   visibleTasks : {Statuses},
   badgeDisplayType : {"total"},
   tasks : {<<>>},
   tasksLastCompletedFetchTimestamp : {NullTimestamp},
   taskFetchFailureReason : {NoFailure}]

\* A running periodic timer fires: its callback calls pollTasks(api).
TimerFires ==
  /\ \E period \in DOMAIN timers : timers[period] > 0
  /\ pollsStarted' = 1
  /\ UNCHANGED <<handlerCalls, lastHandlerStep, contextClick, dispatches>>
  /\ UNCHANGED <<storedState, apiSettings, finishedTaskIds, lastNotificationSettings,
                 notificationInterval, timers, didInitializeSettings,
                 showNonErrorNotifications, effects, notifiedIds, pendingClears>>
  /\ UNCHANGED psVars

SettingsNext ==
  \/ \E state \in SettingsSnapshots :
       \E didUpdate \in updateSettingsAnswers(apiSettings, state.connection) :
         storedStateListener(state, didUpdate)
  \/ \E i \in 1..Len(pendingClears) : CacheCleared(i)
  \/ TimerFires

\* The stored-state listener under snapshots that change the settings, with the
\* cache invalidations it starts and the timer it sets.
SpecSettings == Init /\ [][SettingsNext]_vars

-----------------------------------------------------------------------------
\* Claims about the PathSelector (checked under Spec)

RootRequest(version) == [path |-> ROOT_PATH, version |-> version]

RootIsCurrentlyRequested == RootRequest(requestVersionByPath[ROOT_PATH]) \in inflight

TotalListeners == listeners["c1"] + listeners["c2"]

\* C1: for every path, a response that resolves changes the tree only if it
\* belongs to the request dispatched last for its path; the resolution of an
\* older request, before or after the newer one's, leaves the tree as it was.
C1_OnlyCurrentResponseApplied ==
  [][\A r \in inflight :
       (r \notin inflight' /\ r.version # requestVersionByPath[r.path])
         => directoryTree' = directoryTree]_vars

\* The response to request 1 for /a, listing /a/x, resolved after request 2's
\* empty listing had been applied, and /a still has no /a/x.
C1_Witness ==
  /\ lastStep.op = "resolve"
  /\ lastStep.path = "/a"
  /\ lastStep.version = 1
  /\ lastStep.response = [kind |-> "success", files |-> <<Entry("/a/x")>>]
  /\ requestVersionByPath["/a"] = 2
  /\ [path |-> "/a", version |-> 2] \notin inflight
  /\ PathsIn(directoryTree) = {"/", "/a"}
  /\ directoryTree.children.nodes[1].children = Loaded(<<>>)

\* C2: from the step in which loadTopLevelDirectories allocates its version until
\* its response resolves, the root's children are Unloaded, whatever they were.
C2_RootUnloadedWhileRequested ==
  RootIsCurrentlyRequested => isUnloadedChild(directoryTree.children)

\* A settings change found the root Loaded and left it Unloaded, its request pending.
C2_Witness ==
  /\ lastStep.op = "settingsChange"
  /\ lastStep.rootBefore = "loaded"
  /\ RootIsCurrentlyRequested
  /\ isUnloadedChild(directoryTree.children)

\* C3: when the response to the current top-level request resolves, a connection
\* failure or a protocol error makes the root's children Loading-failed, and a
\* success makes them Loaded with one node per share, each with Unloaded children.
C3_CurrentTopLevelResponseApplied ==
  (/\ lastStep.op = "resolve"
   /\ lastStep.path = ROOT_PATH
   /\ lastStep.version = requestVersionByPath[ROOT_PATH])
    => IF lastStep.response.kind \in {"connectionFailure", "error"}
         THEN isErrorChild(directoryTree.children)
         ELSE /\ lastStep.response.kind = "success"
              /\ isLoadedChild(directoryTree.children)
              /\ Len(directoryTree.children.nodes) = Len(lastStep.response.files)
              /\ \A i \in 1..Len(lastStep.response.files) :
                   /\ directoryTree.children.nodes[i].path = lastStep.response.files[i].path
                   /\ directoryTree.children.nodes[i].name = lastStep.response.files[i].name
                   /\ isUnloadedChild(directoryTree.children.nodes[i].children)

\* The current top-level response listed two shares, and the tree shows them.
C3_Witness ==
  /\ lastStep.op = "resolve"
  /\ lastStep.path = ROOT_PATH
  /\ lastStep.version = requestVersionByPath[ROOT_PATH]
  /\ lastStep.response.kind = "success"
  /\ Len(lastStep.response.files) = 2
  /\ PathsIn(directoryTree) = {"/", "/a", "/b"}

\* C4: loadNestedDirectory(path) called while the root's children are not Loaded
\* changes neither the tree nor the version of any path, and dispatches nothing.
C4_NestedLoadBeforeTopLevelIsNoOp ==
  [][(lastStep'.op = "loadNestedDirectory" /\ ~isLoadedChild(directoryTree.children))
       => UNCHANGED <<directoryTree, requestVersionByPath, inflight>>]_vars

\* loadNestedDirectory("/a") ran while the root was Loading-failed.
C4_Witness ==
  /\ lastStep.op = "loadNestedDirectory"
  /\ lastStep.path = "/a"
  /\ lastStep.rootBefore = "error"
  /\ isErrorChild(directoryTree.children)
  /\ requestVersionByPath["/a"] = 0

\* C5: the component holds at most one live settings-change subscription, the one
\* its stored callback releases, and none once it is unmounted.
C5_AtMostOneSubscription ==
  /\ TotalListeners <= 1
  /\ unsubscribeCallback = NoCallback => TotalListeners = 0
  /\ unsubscribeCallback # NoCallback => listeners[unsubscribeCallback] = 1
  /\ lifecycle = "unmounted" => TotalListeners = 0

\* Unmounted after a client change, with nothing subscribed.
C5_Witness ==
  /\ lifecycle = "unmounted"
  /\ propsClient = "c2"
  /\ TotalListeners = 0

\* C6: once a change of client has been processed, the component's one live
\* subscription is on the new client and none is left on the old one.
\* (componentWillReceiveProps records the root version it allocated, which is
\* positive exactly when the client differed.)
C6_SubscribedToNewClient ==
  (lastStep.op = "componentWillReceiveProps" /\ lastStep.version > 0)
    => /\ listeners[propsClient] = 1
       /\ \A c \in Clients \ {propsClient} : listeners[c] = 0

-----------------------------------------------------------------------------
\* Claims about the completion detection (checked under SpecCompletion)

\* The finished-or-seeding set of a snapshot.
FinishedOrSeeding(state) ==
  {state.tasks[i].id : i \in {j \in 1..Len(state.tasks) :
                                  state.tasks[j].status \in {"finished", "seeding"}}}

SnapshotFinished == FinishedOrSeeding(storedState.value)

CompletionEnabled == storedState.value.notifications.enableCompletionNotifications

\* C7: a snapshot that passes the detection guard, with a baseline and completion
\* notifications enabled, notifies exactly the ids of its finished-or-seeding set
\* that are not in the baseline, each once.
C7_NotifiesExactlyNewCompletions ==
  (storedState.defined /\ effects.guardPassed /\ effects.baselineBefore.defined
     /\ CompletionEnabled)
    => /\ Range(effects.notified) = SnapshotFinished \ effects.baselineBefore.value
       /\ Len(effects.notified) = Cardinality(Range(effects.notified))

\* Baseline {A}, snapshot with A and B done: one notification, for B.
C7_Witness ==
  /\ storedState.defined
  /\ effects.guardPassed
  /\ CompletionEnabled
  /\ effects.baselineBefore = Defined({"A"})
  /\ SnapshotFinished = {"A", "B"}
  /\ effects.notified = <<"B">>

\* C8 as stated: no task id is notified a second time over the process lifetime.
C8_NeverNotifiedTwice ==
  [][\A id \in notifiedIds : id \notin Range(effects'.notified)]_vars

\* C8 as amended: an id of the baseline, the finished-or-seeding set of the last
\* snapshot that passed the detection guard, is not notified by the next snapshot.
C8_BaselineIdsNotRenotified ==
  effects.baselineBefore.defined
    => Range(effects.notified) \cap effects.baselineBefore.value = {}

\* A, notified by an earlier snapshot and still done, is not notified again.
C8_Witness ==
  /\ storedState.defined
  /\ effects.guardPassed
  /\ CompletionEnabled
  /\ "A" \in notifiedIds
  /\ effects.baselineBefore = Defined({"A"})
  /\ "A" \in SnapshotFinished
  /\ effects.notified = <<>>

\* C9: with no baseline yet, a snapshot that passes the detection guard notifies
\* nothing, whatever its set and its settings, and its set becomes the baseline.
C9_FirstSnapshotSeedsBaseline ==
  (storedState.defined /\ effects.guardPassed /\ ~effects.baselineBefore.defined)
    => /\ effects.notified = <<>>
       /\ finishedTaskIds = Defined(SnapshotFinished)

\* The first guarded snapshot has A and B done and notifications enabled.
C9_Witness ==
  /\ storedState.defined
  /\ effects.guardPassed
  /\ ~effects.baselineBefore.defined
  /\ CompletionEnabled
  /\ SnapshotFinished = {"A", "B"}
  /\ effects.notified = <<>>
  /\ finishedTaskIds = Defined({"A", "B"})

\* C10: every snapshot that passes the detection guard makes its set the
\* baseline, notifications enabled or not; a snapshot whose set is the baseline's
\* notifies nothing.
C10_BaselineReplacedRegardless ==
  (storedState.defined /\ effects.guardPassed)
    => /\ finishedTaskIds = Defined(SnapshotFinished)
       /\ (effects.baselineBefore = Defined(SnapshotFinished) => effects.notified = <<>>)

\* A finished while notifications were disabled; the snapshot that enables them
\* (it starts the timer) has the same set and notifies nothing.
C10_Witness ==
  /\ storedState.defined
  /\ effects.guardPassed
  /\ CompletionEnabled
  /\ effects.timerStarted
  /\ effects.baselineBefore = Defined({"A"})
  /\ SnapshotFinished = {"A"}
  /\ notifiedIds = {}
  /\ effects.notified = <<>>

\* C11: a snapshot whose last-completed-fetch timestamp is absent or not newer
\* than the start time, or that carries a fetch-failure reason, notifies nothing
\* and leaves the baseline as it was.
C11_GuardFailureLeavesBaseline ==
  (/\ storedState.defined
   /\ \/ storedState.value.tasksLastCompletedFetchTimestamp = NullTimestamp
      \/ storedState.value.tasksLastCompletedFetchTimestamp <= START_TIME
      \/ storedState.value.taskFetchFailureReason # NoFailure)
    => /\ effects.notified = <<>>
       /\ finishedTaskIds = effects.baselineBefore

\* A fresh snapshot with a failure reason and B newly done: nothing is notified
\* and the baseline stays {A}.
C11_Witness ==
  /\ storedState.defined
  /\ CompletionEnabled
  /\ storedState.value.tasksLastCompletedFetchTimestamp > START_TIME
  /\ storedState.value.taskFetchFailureReason # NoFailure
  /\ effects.baselineBefore = Defined({"A"})
  /\ SnapshotFinished = {"A", "B"}
  /\ effects.notified = <<>>
  /\ finishedTaskIds = Defined({"A"})

-----------------------------------------------------------------------------
MessagesNext ==
  \/ \E type \in CommandMessages : ReceiveCommandMessage(type)
  \/ ReceivePollMessage
  \/ \E path \in {"undefined", "/a"} : ReceiveAddTasksMessage(<<<<"h", "t">>>>, path)
  \/ \E i \in 1..Len(handlerCalls) : \E response \in CommandResponses :
       CommandResolves(i, response)
  \/ \E i \in 1..Len(handlerCalls) : PollCompletes(i)

\* The message handlers under every interleaving of messages, command responses
\* and poll completions.
SpecMessages == Init /\ [][MessagesNext]_vars

\* One context-menu click, with any click data, waits to be handled.
ContextMenuInit ==
  /\ PathSelectorInit
  /\ ModuleInit
  /\ \E data \in ClickData : contextClick = [state |-> "pending", data |-> data]

ContextMenuNext == onclick

\* The context-menu handler on one click.
SpecContextMenu == ContextMenuInit /\ [][ContextMenuNext]_vars

-----------------------------------------------------------------------------
\* Claims about the client reconfiguration and the poll timer (checked under
\* SpecSettings)

\* C12: the first snapshot the listener processes applies the connection to the
\* client and attaches no task poll to its cache invalidation, even when the
\* client reports that its configuration changed.
C12_FirstSnapshotDoesNotPoll ==
  effects.firstSnapshot
    => /\ apiSettings = Defined(storedState.value.connection)
       /\ ~effects.polled
       /\ \A i \in 1..Len(pendingClears) : ~pendingClears[i]

\* The first snapshot, for which the client reported a change: the cache is being
\* invalidated and no poll follows it.
C12_Witness ==
  /\ effects.firstSnapshot
  /\ effects.reportedChange
  /\ apiSettings = Defined("nas1")
  /\ pendingClears = <<FALSE>>
  /\ pollsStarted = 0

TimersAt(period) == IF period \in DOMAIN timers THEN timers[period] ELSE 0

TotalTimers == TimersAt(60000) + TimersAt(120000)

C14_OneTimerIffEnabled ==
  /\ [](storedState.defined =>
          /\ lastNotificationSettings = Defined(storedState.value.notifications)
          /\ TotalTimers <= 1
          /\ TotalTimers = 1
               <=> storedState.value.notifications.enableCompletionNotifications
          /\ storedState.value.notifications.enableCompletionNotifications
               => LET period == storedState.value.notifications.completionPollingInterval * 1000
                  IN /\ TimersAt(period) = 1
                     /\ notificationInterval = Defined([period |-> period, running |-> TRUE]))
  /\ [][(/\ lastNotificationSettings.defined
         /\ storedState'.value.notifications = lastNotificationSettings.value)
          => UNCHANGED <<timers, notificationInterval>>]_vars

\* The polling interval went from 60 to 120 seconds with notifications enabled:
\* the 60000 ms timer was cancelled and one 120000 ms timer runs.
C14_Witness ==
  /\ storedState.defined
  /\ storedState.value.notifications.enableCompletionNotifications
  /\ storedState.value.notifications.completionPollingInterval = 120
  /\ effects.timerCancelled
  /\ effects.timerStarted
  /\ TimersAt(60000) = 0
  /\ TimersAt(120000) = 1
  /\ 60000 \in DOMAIN timers

-----------------------------------------------------------------------------
\* Claims about the message handlers (checked under SpecMessages)

\* C15: when the remote command of a pause-task, resume-task or delete-tasks
\* handler resolves, a task poll is started exactly if the command succeeded, and
\* the handler then returns "success" once the poll has completed; on a
\* connection failure or a protocol error no poll is started and the handler
\* returns a value carrying the failure message.
C15_PollOnlyOnSuccess ==
  /\ (lastHandlerStep.op = "commandResolved" /\ lastHandlerStep.type \in CommandMessages)
       => IF lastHandlerStep.response.kind = "success"
            THEN /\ pollsStarted = 1
                 /\ lastHandlerStep.returned = NotReturned
                 /\ \E i \in 1..Len(handlerCalls) :
                      handlerCalls[i] = [type |-> lastHandlerStep.type, stage |-> "poll"]
            ELSE /\ pollsStarted = 0
                 /\ lastHandlerStep.returned.kind = "fail"
                 /\ lastHandlerStep.returned.failMessage =
                      (IF lastHandlerStep.response.kind = "connectionFailure"
                         THEN "connection-failure-message"
                         ELSE "error-code-message")
  /\ (lastHandlerStep.op = "pollCompleted" /\ lastHandlerStep.type \in CommandMessages)
       => lastHandlerStep.returned = Success

\* A delete-tasks command ended in a protocol error: no poll, a failure message.
C15_Witness ==
  /\ lastHandlerStep.op = "commandResolved"
  /\ lastHandlerStep.type = "delete-tasks"
  /\ lastHandlerStep.response.kind = "error"
  /\ lastHandlerStep.returned = Failure("error-code-message")
  /\ pollsStarted = 0
  /\ handlerCalls = <<>>

-----------------------------------------------------------------------------
\* Claims about the badge (checked under SpecBadge)

DigitValue(c) ==
  CASE c = "0" -> 0 [] c = "1" -> 1 [] c = "2" -> 2 [] c = "3" -> 3 [] c = "4" -> 4
    [] c = "5" -> 5 [] c = "6" -> 6 [] c = "7" -> 7 [] c = "8" -> 8 [] c = "9" -> 9

\* The number a sequence of decimal digits denotes.
RECURSIVE DecimalValue(_)
DecimalValue(text) ==
  IF text = <<>>
    THEN 0
    ELSE 10 * DecimalValue(SubSeq(text, 1, Len(text) - 1)) + DigitValue(text[Len(text)])

\* The tasks of a snapshot the badge counts.
CountedTasks(state) ==
  {i \in DOMAIN state.tasks :
     state.badgeDisplayType = "total" \/ state.tasks[i].status \in state.visibleTasks}

\* C16: after every processed snapshot the badge is: with a fetch-failure reason,
\* the disabled icon and an empty text whatever the tasks; otherwise the normal
\* icon and the decimal numeral of the count of all tasks (mode "total") or of the
\* tasks the visibility filter lets through (mode "filtered"), empty when that
\* count is zero.
C16_BadgeShowsCount ==
  storedState.defined =>
    LET state == storedState.value
        count == Cardinality(CountedTasks(state))
    IN IF state.taskFetchFailureReason # NoFailure
         THEN effects.badge.icon = "disabled" /\ effects.badge.text = <<>>
         ELSE /\ effects.badge.icon = "normal"
              /\ IF count = 0
                   THEN effects.badge.text = <<>>
                   ELSE /\ effects.badge.text # <<>>
                        /\ effects.badge.text[1] # "0"
                        /\ DecimalValue(effects.badge.text) = count

\* Eleven tasks, ten of them downloading, in mode "filtered" with only
\* downloading tasks visible: the badge reads "10".
C16_Witness ==
  /\ storedState.defined
  /\ storedState.value.taskFetchFailureReason = NoFailure
  /\ storedState.value.badgeDisplayType = "filtered"
  /\ storedState.value.visibleTasks = {"downloading"}
  /\ Len(storedState.value.tasks) = 11
  /\ effects.badge = [icon |-> "normal", text |-> <<"1", "0">>, color |-> "green"]

-----------------------------------------------------------------------------
\* Claims about the context menu (checked under SpecContextMenu)

\* The positions around the lines of a text: before it, its line breaks, after it.
LineBreaks(text) == {0, Len(text) + 1} \cup {i \in 1..Len(text) : text[i] = "\n"}

\* The line that starts after the line break at `start`.
LineAfter(text, start) ==
  LET end == CHOOSE e \in LineBreaks(text) :
               e > start /\ \A b \in LineBreaks(text) : b > start => e <= b
  IN SubSeq(text, start + 1, end - 1)

\* A line without the blanks around it.
Stripped(line) ==
  LET solid == {i \in 1..Len(line) : line[i] # " "}
  IN IF solid = {}
       THEN <<>>
       ELSE SubSeq(line, CHOOSE i \in solid : \A j \in solid : i <= j,
                         CHOOSE i \in solid : \A j \in solid : j <= i)

HasProtocol(url) == \E n \in 0..Len(url) : SubSeq(url, 1, n) \in ALL_DOWNLOADABLE_PROTOCOLS

\* Where the kept lines of a text start.
KeptLines(text) ==
  {start \in LineBreaks(text) \ {Len(text) + 1} : HasProtocol(Stripped(LineAfter(text, start)))}

\* C17: the handled click carried only a selection text. The lines of the text,
\* each without the blanks around it, that start with a downloadable protocol are
\* the kept URLs, in the order of the text. With none kept, one failure
\* notification is emitted and neither an add-tasks call nor a poll is made;
\* otherwise exactly one add-tasks call is made, with exactly the kept URLs.
C17_SelectionDispatchesKeptUrls ==
  (/\ contextClick.state = "handled"
   /\ contextClick.data.linkUrl = <<>>
   /\ contextClick.data.srcUrl = <<>>
   /\ contextClick.data.selectionText # <<>>)
    => LET text == contextClick.data.selectionText
           kept == KeptLines(text)
       IN IF kept = {}
            THEN /\ dispatches.addTasks = <<>>
                 /\ Len(dispatches.notified) = 1
                 /\ pollsStarted = 0
            ELSE /\ dispatches.notified = <<>>
                 /\ Len(dispatches.addTasks) = 1
                 /\ Len(dispatches.addTasks[1].urls) = Cardinality(kept)
                 /\ \A start \in kept :
                      dispatches.addTasks[1].urls[Cardinality({s \in kept : s <= start})]
                        = Stripped(LineAfter(text, start))

\* The selection " m", a line break, "ht": two URLs are kept, "m" and "ht".
C17_Witness ==
  /\ contextClick.state = "handled"
  /\ contextClick.data.linkUrl = <<>>
  /\ contextClick.data.srcUrl = <<>>
  /\ contextClick.data.selectionText = <<"m", "\n", "h", "t">>
  /\ Len(dispatches.addTasks) = 1
  /\ dispatches.addTasks[1].urls = <<<<"m">>, <<"h", "t">>>>

-----------------------------------------------------------------------------
\* Claims about nested requests and top-level reloads (checked under Spec)

\* C18: when the response to the current request for a nested path resolves and
\* the path is not in the tree (the root has been reset to Unloaded, or the
\* reloaded listing lacks the path or its ancestor), the tree stays exactly as it
\* was, whatever the response.
C18_AbsentPathLeavesTree ==
  [][\A r \in inflight :
       (/\ r \notin inflight'
        /\ r.path \in NestedPaths
        /\ r.version = requestVersionByPath[r.path]
        /\ r.path \notin PathsIn(directoryTree))
         => directoryTree' = directoryTree]_vars

\* The current response for /a, listing /a/x, resolved after a settings change had
\* reset the root: the root is still Unloaded and /a is not in the tree.
C18_Witness ==
  /\ lastStep.op = "resolve"
  /\ lastStep.path = "/a"
  /\ lastStep.version = requestVersionByPath["/a"]
  /\ lastStep.response = [kind |-> "success", files |-> <<Entry("/a/x")>>]
  /\ lastStep.rootBefore = "unloaded"
  /\ directoryTree = InitialTree

\* C19: in a run in which every dispatched request resolves and
\* loadTopLevelDirectories is invoked finitely often, the root's children
\* eventually are Loaded or Loading-failed and stay so from then on, also when
\* every top-level response but the last was discarded as stale.
C19_RootEventuallyLeavesUnloaded ==
  <>[](~isUnloadedChild(directoryTree.children))

\* The response to top-level request 2 resolved last and was applied, after
\* request 1 had been superseded: nothing is in flight and the root is Loaded.
C19_Witness ==
  /\ lastStep.op = "resolve"
  /\ lastStep.path = ROOT_PATH
  /\ lastStep.version = 2
  /\ requestVersionByPath[ROOT_PATH] = 2
  /\ lastStep.rootBefore = "unloaded"
  /\ inflight = {}
  /\ isLoadedChild(directoryTree.children)

\* C20: the response to a loadNestedDirectory request that was dispatched before
\* an invocation of loadTopLevelDirectories never changes the tree, also when it
\* resolves after the reloaded listing has been applied and lists the path again.
C20_ResponseFromBeforeReloadDiscarded ==
  [][\A r \in dispatchedBeforeReload :
       r \notin inflight' => directoryTree' = directoryTree]_vars

====
